---- MODULE Spec2Model ----
(***************************************************************************)
(* Model of QuizGenerator (src/Generate_Question.py): construction, the    *)
(* generate_quiz control loop with its retry sub-loop, validate_question,  *)
(* and the retrieval chain seen as an environment that yields one outcome  *)
(* per invocation.                                                         *)
(***************************************************************************)
EXTENDS Integers, Sequences, FiniteSets, TLC

\* ---- bounds of the model -------------------------------------------------
NumTexts == 2          \* distinct non-empty question texts the model can emit
MaxInput == 11         \* num_questions passed to the constructor: 0..MaxInput
MaxCalls == 2          \* generate_quiz invocations on one generator

\* ---- program constants ---------------------------------------------------
MaxQuestions == 10     \* `if num_questions > 10`
RetryLimit == 3        \* `for i in range(3)`

\* ---- values --------------------------------------------------------------
\* A question text: 0 is the empty string "", 1..NumTexts are distinct
\* non-empty strings.
Texts == 1..NumTexts

\* A parsed JSON object.  has_question: the key "question" is present;
\* question: its value; shape: "ok" when choices/answer/explanation satisfy
\* QuestionSchema's descriptions (four choices keyed A-D, answer one of the
\* keys), "bad" otherwise.
Dict(h, q, s) == [has_question |-> h, question |-> q, shape |-> s]

NoDict == Dict(FALSE, 0, "none")

\* The objects the model is taken to emit: a well-formed question for every
\* text, one with malformed choices, one with an empty question text and one
\* without the "question" key.
Dicts ==
    {Dict(TRUE, q, "ok") : q \in Texts}
        \cup {Dict(TRUE, 1, "bad"), Dict(TRUE, 0, "ok"), Dict(FALSE, 0, "ok")}

\* A Python value handed around by generate_quiz: a dict, or a str.  A str is
\* described by what json.loads makes of it: json = TRUE when its content is
\* the JSON text of the object d, FALSE when its content is not JSON at all.
PyDict(d) == [type |-> "dict", json |-> FALSE, d |-> d]

PyStr(j, d) == [type |-> "str", json |-> j, d |-> d]

NoValue == [type |-> "none", json |-> FALSE, d |-> NoDict]

\* What the language model emits for one prompt: text that is not JSON
\* ("garbage"), the JSON text of an object, or a JSON string literal whose
\* content is again either not JSON or the JSON text of an object.
RawGarbage == [form |-> "garbage", json |-> FALSE, d |-> NoDict]

RawObject(d) == [form |-> "object", json |-> FALSE, d |-> d]

RawString(j, d) == [form |-> "string", json |-> j, d |-> d]

ModelFailure == [form |-> "failure", json |-> FALSE, d |-> NoDict]

ModelOutputs ==
    {RawGarbage, ModelFailure, RawString(FALSE, NoDict)}
        \cup {RawObject(d) : d \in Dicts}
        \cup {RawString(TRUE, d) : d \in Dicts}

\* An outcome of a call: a value, or an exception.
Ok(v) == [ok |-> TRUE, error |-> "", value |-> v]

Raise(e) == [ok |-> FALSE, error |-> e, value |-> NoValue]

\* JsonOutputParser(pydantic_object=QuestionSchema).parse: parses JSON, raises
\* OutputParserException on text that is not JSON, and returns whatever JSON
\* value it read; the schema only feeds get_format_instructions.
parser_parse(raw) ==
    CASE raw.form = "garbage" -> Raise("OutputParserException")
      [] raw.form = "object"  -> Ok(PyDict(raw.d))
      [] raw.form = "string"  -> Ok(PyStr(raw.json, raw.d))

\* chain.invoke(self.topic): retriever | prompt | llm | parser.
chain_invoke(raw) ==
    IF raw.form = "failure" THEN Raise("ModelError") ELSE parser_parse(raw)

\* generate_question_with_vectorstore after init_llm: the vectorstore check,
\* then the chain.
generate_question_with_vectorstore(vs, raw) ==
    IF ~vs THEN Raise("ValueError") ELSE chain_invoke(raw)

\* json.loads(question_str)
json_loads(v) ==
    CASE v.type = "dict" -> Raise("TypeError")
      [] v.type = "str" /\ v.json  -> Ok(PyDict(v.d))
      [] v.type = "str" /\ ~v.json -> Raise("JSONDecodeError")

\* The texts of the bank's entries.
BankTexts(bank) == {bank[k].question : k \in 1..Len(bank)}

validate_question_nodup(bank, question) ==
    IF question.type = "str"
    THEN IF question.json /\ question.d.has_question
         THEN Raise("TypeError") ELSE Raise("ValueError")
    ELSE IF ~question.d.has_question \/ question.d.question = 0
         THEN Raise("ValueError")
         ELSE Ok(TRUE)

validate_question_lenient(bank, question) ==
    IF question.type = "str"
    THEN IF question.json /\ question.d.has_question
         THEN Raise("TypeError") ELSE Raise("ValueError")
    ELSE IF ~question.d.has_question \/ question.d.question = 0
         THEN Ok(FALSE)
         ELSE Ok(question.d.question \notin BankTexts(bank))

\* validate_question(self, question).  On a str, `'question' not in question`
\* is a substring test: a str without that substring raises ValueError, one
\* with it fails on question['question'] with TypeError.
validate_question(bank, question) ==
    IF question.type = "str"
    THEN IF question.json /\ question.d.has_question
         THEN Raise("TypeError") ELSE Raise("ValueError")
    ELSE IF ~question.d.has_question \/ question.d.question = 0
         THEN Raise("ValueError")
         ELSE Ok(question.d.question \notin BankTexts(bank))

append_front(bank, d) == <<d>> \o bank

\* self.question_bank.append(question)
append(bank, d) == Append(bank, d)

QuizGenerator_init_off_by_one(n) ==
    IF n > MaxQuestions + 1 THEN Raise("ValueError") ELSE Ok(NoValue)

\* QuizGenerator.__init__: the num_questions check.
QuizGenerator_init(n) ==
    IF n > MaxQuestions THEN Raise("ValueError") ELSE Ok(NoValue)

\* ---- state ---------------------------------------------------------------
VARIABLES
    num_questions,   \* the constructor's num_questions argument
    vectorstore,     \* TRUE when a vectorstore was supplied (truthy)
    llm,             \* TRUE once init_llm has run (self.llm is not None)
    question_bank,   \* self.question_bank: a sequence of accepted objects
    pc,              \* "noobject": __init__ raised; "idle": no call running;
                     \* "slot": about to make the first attempt of slot i;
                     \* "retry": about to make retry `attempt` of slot i;
                     \* "return": at `return self.question_bank`
    i,               \* index of the outer loop, 0-based
    attempt,         \* index of the retry loop, 0-based
    response,        \* outcome of the last generate_question_with_vectorstore
    result,          \* outcome of the last finished call on the generator
    quizCalls,       \* number of generate_quiz invocations started
    \* what a recording mock of the chain would know:
    chainSame,       \* NoOutcome, the one outcome of all invocations so far
                     \* (over all calls), or Mixed
    \* ... and about the current generate_quiz call:
    retried,         \* TRUE once the retry loop has invoked the chain
    produced,        \* the objects the chain has yielded
    clean            \* [all, log]: all = every invocation yielded a
                     \* well-formed question with a text not then in the bank;
                     \* log = those questions in order (<<>> once all is FALSE)

vars == <<num_questions, vectorstore, llm, question_bank, pc, i, attempt,
          response, result, quizCalls, chainSame, retried, produced, clean>>

config == <<num_questions, vectorstore>>

mock == <<chainSame, retried, produced, clean>>

NoResult == [op |-> "none", status |-> "none", error |-> "", arg |-> NoValue]

Returned(op, v, a) == [op |-> op, status |-> "returned", error |-> v, arg |-> a]

Raised(op, e, a) == [op |-> op, status |-> "raised", error |-> e, arg |-> a]

NoOutcome == Raise("none")

Mixed == Raise("mixed")

\* v is a dict holding a non-empty question text
IsQuestion(v) == v.type = "dict" /\ v.d.has_question /\ v.d.question # 0

\* v is a dict or the JSON text of a dict: the object it carries
Carries(v) == IF v.type = "dict" \/ (v.type = "str" /\ v.json) THEN {v.d} ELSE {}

\* The mock's record after the chain yielded outcome g with the bank at `bank`.
Record(g, bank) ==
    /\ retried' = (retried \/ pc = "retry")
    /\ chainSame' = IF chainSame \in {NoOutcome, g} THEN g ELSE Mixed
    /\ produced' = produced \cup (IF g.ok THEN Carries(g.value) ELSE {})
    /\ clean' = IF /\ clean.all
                   /\ g.ok
                   /\ IsQuestion(g.value)
                   /\ g.value.d.shape = "ok"
                   /\ g.value.d.question \notin BankTexts(bank)
                THEN [all |-> TRUE, log |-> Append(clean.log, g.value.d)]
                ELSE [all |-> FALSE, log |-> <<>>]

\* Construction: QuizGenerator(topic, num_questions, vectorstore).
Init ==
    \E n \in 0..MaxInput, vs \in BOOLEAN :
        /\ num_questions = n
        /\ vectorstore = vs
        /\ llm = FALSE
        /\ question_bank = <<>>
        /\ pc = IF QuizGenerator_init(n).ok THEN "idle" ELSE "noobject"
        /\ i = 0
        /\ attempt = 0
        /\ response = NoOutcome
        /\ result = NoResult
        /\ quizCalls = 0
        /\ retried = FALSE
        /\ chainSame = NoOutcome
        /\ produced = {}
        /\ clean = [all |-> TRUE, log |-> <<>>]

\* Where the outer loop goes after slot k is finished.
next_slot(k) ==
    IF k + 1 < num_questions
    THEN [pc |-> "slot", i |-> k + 1, attempt |-> 0]
    ELSE [pc |-> "return", i |-> k + 1, attempt |-> 0]

\* Where the retry loop goes after a `continue` in attempt a of slot k.
retry_continue(k, a) ==
    IF a + 1 < RetryLimit
    THEN [pc |-> "retry", i |-> k, attempt |-> a + 1]
    ELSE next_slot(k)

retry_no_break(k, a) == retry_continue(k, a)

\* Where the retry loop goes after append + `break`.
retry_break(k, a) == next_slot(k)

Goto(t) ==
    /\ pc' = t.pc
    /\ i' = t.i
    /\ attempt' = t.attempt

\* The call ends with an exception: control leaves generate_quiz.
Abort(e) ==
    /\ pc' = "idle"
    /\ result' = Raised("generate_quiz", e, NoValue)
    /\ UNCHANGED <<i, attempt>>

reset_keep(bank) == bank

\* self.question_bank = []
reset(bank) == <<>>

\* generate_quiz is entered: the bank is reset and the outer loop starts.
GenerateQuiz ==
    /\ pc = "idle"
    /\ quizCalls < MaxCalls
    /\ quizCalls' = quizCalls + 1
    /\ question_bank' = reset(question_bank)
    /\ retried' = FALSE
    /\ produced' = {}
    /\ clean' = [all |-> TRUE, log |-> <<>>]
    /\ response' = NoOutcome
    /\ result' = NoResult
    /\ pc' = IF 0 < num_questions THEN "slot" ELSE "return"
    /\ i' = 0
    /\ attempt' = 0
    /\ UNCHANGED <<config, llm, chainSame>>

\* One iteration of the outer loop up to the retry loop: generate, validate,
\* append or fall into the retry loop.
FirstAttempt ==
    /\ pc = "slot"
    /\ \E raw \in ModelOutputs :
        LET g == generate_question_with_vectorstore(vectorstore, raw)
            v == validate_question(question_bank, g.value)
        IN  /\ llm' = TRUE
            /\ response' = g
            /\ Record(g, question_bank)
            /\ IF ~g.ok
               THEN Abort(g.error) /\ UNCHANGED question_bank
               ELSE IF ~v.ok
               THEN Abort(v.error) /\ UNCHANGED question_bank
               ELSE IF v.value
               THEN /\ question_bank' = append(question_bank, g.value.d)
                    /\ Goto(next_slot(i))
                    /\ UNCHANGED result
               ELSE /\ Goto([pc |-> "retry", i |-> i, attempt |-> 0])
                    /\ UNCHANGED <<question_bank, result>>
    /\ UNCHANGED <<config, quizCalls>>

\* One iteration of the retry loop: generate, json.loads, validate, then
\* append and break, or print the attempt number and continue.
RetryAttempt ==
    /\ pc = "retry"
    /\ \E raw \in ModelOutputs :
        LET g == generate_question_with_vectorstore(vectorstore, raw)
            j == json_loads(g.value)
            v == validate_question(question_bank, j.value)
        IN  /\ llm' = TRUE
            /\ response' = g
            /\ Record(g, question_bank)
            /\ IF ~g.ok
               THEN Abort(g.error) /\ UNCHANGED question_bank
               ELSE IF ~j.ok /\ j.error = "JSONDecodeError"
               THEN /\ Goto(retry_continue(i, attempt))
                    /\ UNCHANGED <<question_bank, result>>
               ELSE IF ~j.ok
               THEN Abort(j.error) /\ UNCHANGED question_bank
               ELSE IF ~v.ok
               THEN Abort(v.error) /\ UNCHANGED question_bank
               ELSE IF v.value
               THEN /\ question_bank' = append(question_bank, j.value.d)
                    /\ Goto(retry_break(i, attempt))
                    /\ UNCHANGED result
               \* "...Attempt " + (i+1): str + int
               ELSE Abort("TypeError") /\ UNCHANGED question_bank
    /\ UNCHANGED <<config, quizCalls>>

\* return self.question_bank
Return ==
    /\ pc = "return"
    /\ pc' = "idle"
    /\ result' = Returned("generate_quiz", "bank", NoValue)
    /\ UNCHANGED <<config, llm, question_bank, i, attempt, response,
                   quizCalls, mock>>

\* The candidates of a direct call: {} , {"question": ""} and a question.
ValidateInputs == {Dict(FALSE, 0, "ok"), Dict(TRUE, 0, "ok"), Dict(TRUE, 1, "ok")}

\* A direct call generator.validate_question(candidate) by the caller.
ValidateQuestion ==
    /\ pc = "idle"
    /\ \E c \in {PyDict(d) : d \in ValidateInputs} :
        LET v == validate_question(question_bank, c)
        IN  result' = IF v.ok
                      THEN Returned("validate_question",
                                    IF v.value THEN "True" ELSE "False", c)
                      ELSE Raised("validate_question", v.error, c)
    /\ UNCHANGED <<config, llm, question_bank, pc, i, attempt, response,
                   quizCalls, mock>>

Next ==
    \/ GenerateQuiz
    \/ FirstAttempt
    \/ RetryAttempt
    \/ Return
    \/ ValidateQuestion

Spec == Init /\ [][Next]_vars

\* ---- properties ----------------------------------------------------------
\* A generate_quiz call has ended and nothing was called since.
Finished == pc = "idle" /\ result.op = "generate_quiz"

\* v is a dict without a "question" key or with an empty question text.
LacksQuestion(v) ==
    v.type = "dict" /\ (~v.d.has_question \/ v.d.question = 0)

\* d is a question that satisfies the schema's descriptions.
WellFormed(d) == d.has_question /\ d.question # 0 /\ d.shape = "ok"

\* C1: in every state, no two entries of the question bank have the same
\* question text.
C1_NoDuplicateTexts ==
    \A a, b \in 1..Len(question_bank) :
        a # b => question_bank[a].question # question_bank[b].question

\* A call returned two questions, the second found by the retry loop after a
\* duplicate.
C1_Witness ==
    /\ Finished
    /\ result.status = "returned"
    /\ retried
    /\ Len(question_bank) >= 2

\* C2: a retry invocation that returns a question whose text is not in the
\* bank appends it, ends the retries of the slot and moves to the next slot.
C2_RetryAcceptsFreshQuestion ==
    [][ ( /\ pc = "retry"
          /\ response'.ok
          /\ IsQuestion(response'.value)
          /\ response'.value.d.question \notin BankTexts(question_bank) )
        => ( /\ question_bank' = Append(question_bank, response'.value.d)
             /\ pc' = next_slot(i).pc
             /\ i' = i + 1 ) ]_vars

\* C3: when every chain invocation returned the same well-formed question and
\* num_questions >= 1, the call returns a bank of length exactly 1.
C3_SameQuestionYieldsOne ==
    ( /\ Finished
      /\ num_questions >= 1
      /\ chainSame.ok
      /\ chainSame.value.type = "dict"
      /\ WellFormed(chainSame.value.d) )
    => (result.status = "returned" /\ Len(question_bank) = 1)

\* C4: a response that cannot be parsed never leaves generate_quiz as an
\* error.
C4_SchemaErrorNeverEscapes ==
    ~( /\ result.op = "generate_quiz"
       /\ result.status = "raised"
       /\ result.error = "OutputParserException" )

\* C5: every entry of the bank is well-formed: four choices keyed A-D, an
\* answer among the keys, a non-empty question.
C5_BankWellFormed ==
    \A k \in 1..Len(question_bank) : WellFormed(question_bank[k])

\* C6: for num_questions in 1..10 the bank never holds more than
\* num_questions entries, and never more than one entry per slot begun.
C6_AtMostOnePerSlot ==
    num_questions \in 1..MaxQuestions
    => /\ Len(question_bank) <= num_questions
       /\ pc \in {"slot", "retry"} => Len(question_bank) <= i
       /\ pc = "return" => Len(question_bank) <= i

\* A call returned fewer questions than requested: a slot used up its retries.
C6_Witness ==
    /\ Finished
    /\ result.status = "returned"
    /\ retried
    /\ Len(question_bank) >= 1
    /\ Len(question_bank) < num_questions

\* C7: num_questions > 10 yields no generator, no language model, no chain
\* invocation and no call; num_questions in 1..10 yields a generator.
C7_ConstructionCheck ==
    /\ num_questions > MaxQuestions
       => /\ pc = "noobject"
          /\ ~llm
          /\ quizCalls = 0
          /\ chainSame = NoOutcome
          /\ response = NoOutcome
          /\ question_bank = <<>>
    /\ num_questions \in 1..MaxQuestions => pc # "noobject"

\* Construction with num_questions = 11 has failed.
C7_Witness == num_questions = MaxQuestions + 1 /\ pc = "noobject"

\* C8: validate_question on a candidate without a question text raises
\* ValueError and leaves the bank alone, in a direct call and inside
\* generate_quiz, where the call is aborted with that error.
C8_MissingQuestionRaises ==
    [][ /\ ( \/ pc = "slot" /\ response'.ok /\ LacksQuestion(response'.value)
             \/ /\ pc = "retry"
                /\ response'.ok
                /\ response'.value.type = "str"
                /\ response'.value.json
                /\ LacksQuestion(json_loads(response'.value).value) )
           => /\ pc' = "idle"
              /\ result' = Raised("generate_quiz", "ValueError", NoValue)
              /\ question_bank' = question_bank
        /\ (pc = "idle" /\ pc' = "idle" /\ LacksQuestion(result'.arg))
           => /\ result'.status = "raised"
              /\ result'.error = "ValueError"
              /\ question_bank' = question_bank ]_vars

\* validate_question({}) was called on a generator with a non-empty bank and
\* raised.
C8_Witness ==
    /\ result.op = "validate_question"
    /\ result.arg = PyDict(Dict(FALSE, 0, "ok"))
    /\ result.status = "raised"
    /\ Len(question_bank) >= 1

\* C9: as long as every chain invocation yielded a well-formed question with
\* a text not in the bank, the bank is the sequence of those questions in
\* order and no retry was made; the call then returns num_questions entries.
C9_AllUniqueFirstAttempts ==
    (clean.all /\ quizCalls >= 1)
    => /\ question_bank = clean.log
       /\ ~retried
       /\ pc # "retry"
       /\ pc \in {"slot", "return"} => Len(question_bank) = i
       /\ Finished => /\ result.status = "returned"
                      /\ Len(question_bank) = num_questions

\* A call with two slots returned after two distinct first attempts.
C9_Witness ==
    /\ Finished
    /\ clean.all
    /\ num_questions >= 2
    /\ Len(question_bank) = num_questions

\* C10: the bank is empty when the first slot of a call begins, holds only
\* objects the chain yielded during the current call, and a first attempt is
\* sent to the retry loop only for a text the current bank holds.
C10_BankResetPerCall ==
    /\ (pc = "slot" /\ i = 0) => question_bank = <<>>
    /\ quizCalls >= 1
       => \A k \in 1..Len(question_bank) : question_bank[k] \in produced
    /\ (pc = "retry" /\ attempt = 0)
       => response.value.d.question \in BankTexts(question_bank)

\* The second call on a one-question generator accepted the very question
\* the first call had accepted.
C10_Witness ==
    /\ quizCalls = 2
    /\ num_questions = 1
    /\ Finished
    /\ result.status = "returned"
    /\ chainSame = Ok(PyDict(Dict(TRUE, 1, "ok")))
    /\ question_bank = <<Dict(TRUE, 1, "ok")>>

====
